---- MODULE Spec2Model ----
(***************************************************************************)
(* TradeBrain server (KemonDream/AI-Decenter-Market-Modeling).             *)
(*                                                                         *)
(* Three state machines over one set of variables:                         *)
(*   SpecConn    one TCP connection of ServerCore._handle_client /         *)
(*               SocketHandler._handle_client: recv, decode, framing at    *)
(*               newlines, json.loads, dispatch, response.                 *)
(*   SpecStore   ServerCore._process_request and its handlers over the     *)
(*               tick table of DatabaseManager.                            *)
(*   SpecPredict PREDICT requests against ServerCore and against the       *)
(*               FastBrain server of src/main.py.                          *)
(***************************************************************************)
EXTENDS Integers, Sequences, FiniteSets, Bags, TLC

VARIABLES
    recvd,        \* connection: every byte recv() has returned so far
    buffer,       \* connection: the local `buffer` of _handle_client (decoded text)
    sent,         \* connection: the responses passed to sendall, in order
    dispatched,   \* connection: the msg_str values handed to json.loads, in order
    pc,           \* connection: "recv" | "lines" | "closed"
    closedBy,     \* connection: "" | "peer" | "exception"
    store,        \* the ticks table: a bag of rows [timestamp, price]
    req,          \* the request being answered (a parsed JSON value)
    fault,        \* whether the storage layer fails during that request
    resp,         \* the response built for req
    server,       \* which program serves PREDICT: "ServerCore" | "FastBrain"
    tick_buffer,  \* FastBrain.tick_buffer, a deque(maxlen=INPUT_WINDOW)
    predicts,     \* the prices of the PREDICT requests answered so far
    prices_list,      \* ModelEngine: the price history given to train
    timestamps_list,  \* ModelEngine: the timestamps given to train
    trained,          \* ModelEngine: what train returned and built
    predicted,        \* ModelEngine: what predict computed
    features,         \* ModelEngine: what _extract_time_features returned
    threads,      \* server: what each connection's thread is doing
    backlog,      \* server: connections waiting in the listen queue
    accept_loop,  \* server: 0, or the connection the accept loop waits for
    lock,         \* FastBrain.lock: 0, or the thread that holds it
    txn,          \* sqlite: the rows each connection has inserted but not committed
    batch,        \* save_bulk_data: the rows of cleaned_data still to insert
    writer,       \* sqlite: 0, or the connection that holds the write lock
    reply,        \* what save_bulk_data returned, not yet sent as count
    acked,        \* the ticks each client has been told are saved
    seen,         \* the table as the last get_training_data read it
    boot_pc,      \* main and start(): where the main thread is
    environment,  \* the database file, the model file and the port at startup
    model_state,  \* ModelEngine.model: "none", "loaded" or "fresh"
    listener,     \* the listening socket: "none", "open", "listening", "closed"
    running,      \* self.running
    ready,        \* the server has announced that it listens
    clients,      \* the connections accept() has returned
    shutdowns,    \* how many times the shutdown step has run
    artifact      \* how many times the model file has been written

vars == <<recvd, buffer, sent, dispatched, pc, closedBy,
          store, req, fault, resp, server, tick_buffer, predicts,
          prices_list, timestamps_list, trained, predicted, features,
          threads, backlog, accept_loop, lock,
          txn, batch, writer, reply, acked, seen,
          boot_pc, environment, model_state, listener, running, ready,
          clients, shutdowns, artifact>>

connVars == <<recvd, buffer, sent, dispatched, pc, closedBy>>
storeVars == <<store, req, fault, resp>>
predictVars == <<server, tick_buffer, predicts>>
engineVars == <<prices_list, timestamps_list, trained, predicted, features>>
threadVars == <<threads, backlog, accept_loop, lock>>
txnVars == <<txn, batch, writer, reply, acked, seen>>
lifeVars == <<boot_pc, environment, model_state, listener, running, ready,
              clients, shutdowns>>

(***************************************************************************)
(* Bounds of the model.                                                    *)
(***************************************************************************)
MaxStream == 5     \* bytes one connection receives
MaxBatch == 2      \* items in one FEED_DATA data list
MaxStore == 3      \* rows the ticks table may hold
MaxExtra == 2      \* PREDICT requests beyond INPUT_WINDOW
MaxConns == 3      \* connections the server is offered
MaxTicks == 8      \* rows the ticks table may hold when TRAIN is studied
MaxDay == 6        \* timestamps run from the day before 1970-01-01 to this day
MaxStamps == 2     \* timestamps in one call of _extract_time_features
MaxLen == 10       \* prices in the history given to ModelEngine.train
BatchLen == 2      \* ticks in each batch of the concurrent feeds
MaxFeeds == 2      \* batches each connection commits in the concurrent feeds
MaxStops == 2      \* calls of stop() from another thread
MantissaBits == 3  \* significant bits of a float (53 in a float64)
FracBits == 2      \* a float is a whole number of units of 2^-FracBits

Conns == 1..MaxConns

\* Nothing has been computed by the ModelEngine.
NoResult == [status |-> "none"]

(***************************************************************************)
(* config.py, scaled down to model size: the window and the horizon keep  *)
(* their roles (2000, 2000, 100 and 500000 in the source).                 *)
(***************************************************************************)
INPUT_WINDOW == 3
TOTAL_PREDICT_TICKS == 4
PREDICT_STRIDE == 2
OUTPUT_STEPS == TOTAL_PREDICT_TICKS \div PREDICT_STRIDE
TRAIN_LIMIT == 8
TRAIN_MARGIN == 1        \* the 100 of ModelEngine.train's length check
SAMPLE_STRIDE == 2       \* the stride = 20 of ModelEngine.train

(***************************************************************************)
(* Bytes on the wire.  "L" "C" are the lead and the continuation byte of   *)
(* one two-byte UTF-8 character (0xC3 0xA9); every other byte is ASCII.    *)
(***************************************************************************)
NL == "\n"
SP == " "
Bytes == {NL, SP, "{", "}", "1", "L", "C"}

Min(a, b) == IF a < b THEN a ELSE b

\* bytes.decode('utf-8') of one recv() result: each chunk is decoded on its
\* own, so a chunk that ends inside a character, or holds a stray
\* continuation byte, raises UnicodeDecodeError (ok = FALSE).
RECURSIVE decode(_)
decode(bs) ==
    IF bs = <<>> THEN [ok |-> TRUE, s |-> <<>>]
    ELSE IF Head(bs) = "C" THEN [ok |-> FALSE, s |-> <<>>]
    ELSE IF Head(bs) = "L"
         THEN IF Len(bs) >= 2 /\ bs[2] = "C"
              THEN LET r == decode(SubSeq(bs, 3, Len(bs)))
                   IN  IF r.ok THEN [ok |-> TRUE, s |-> <<"E">> \o r.s] ELSE r
              ELSE [ok |-> FALSE, s |-> <<>>]
    ELSE LET r == decode(Tail(bs))
         IN  IF r.ok THEN [ok |-> TRUE, s |-> <<Head(bs)>> \o r.s] ELSE r

HasNL(s) == \E i \in 1..Len(s) : s[i] = NL

FirstNL(s) == CHOOSE i \in 1..Len(s) : s[i] = NL /\ \A j \in 1..(i - 1) : s[j] # NL

\* buffer.split('\n', 1): the text before the first newline, and the rest.
split_head(s) == SubSeq(s, 1, FirstNL(s) - 1)
split_rest(s) == SubSeq(s, FirstNL(s) + 1, Len(s))

RECURSIVE lstrip(_)
lstrip(s) == IF s # <<>> /\ Head(s) = SP THEN lstrip(Tail(s)) ELSE s

RECURSIVE rstrip(_)
rstrip(s) ==
    IF s # <<>> /\ s[Len(s)] = SP THEN rstrip(SubSeq(s, 1, Len(s) - 1)) ELSE s

\* str.strip()
strip(s) == rstrip(lstrip(s))

(***************************************************************************)
(* JSON values.  A request object is a record of its fields; data is       *)
(* [t, items] and price is [present, v].                                   *)
(***************************************************************************)
NoData == [t |-> "absent", items |-> <<>>]
NoPrice == [present |-> FALSE, v |-> 0]
EmptyObject == [json |-> "object", type |-> "absent", data |-> NoData, price |-> NoPrice]
NumberValue == [json |-> "number", type |-> "absent", data |-> NoData, price |-> NoPrice]

\* json.loads on the texts of this alphabet: digits are a number, "{" "}"
\* with only whitespace between is the empty object, everything else raises
\* JSONDecodeError (ok = FALSE).
json_loads(s) ==
    LET t == strip(s)
    IN  IF t # <<>> /\ \A i \in 1..Len(t) : t[i] = "1"
        THEN [ok |-> TRUE, val |-> NumberValue]
        ELSE IF /\ Len(t) >= 2
                /\ t[1] = "{"
                /\ t[Len(t)] = "}"
                /\ \A i \in 2..(Len(t) - 1) : t[i] = SP
             THEN [ok |-> TRUE, val |-> EmptyObject]
             ELSE [ok |-> FALSE, val |-> EmptyObject]

(***************************************************************************)
(* Elements of a data item, and what sqlite3 does with them.               *)
(***************************************************************************)
Num(n) == [k |-> "num", v |-> n]
Str == [k |-> "str", v |-> 0]        \* a JSON string that is no number
Nested == [k |-> "list", v |-> 0]    \* a JSON array or object

\* sqlite3 binds None, int, float and str; a list or dict parameter raises.
Bindable(e) == e.k \in {"num", "str", "null"}

\* ORDER BY on a column: NULL first, then numbers by value, then text.
SortClass(e) == CASE e.k = "null" -> 0 [] e.k = "num" -> 1 [] OTHER -> 2
SortLess(a, b) ==
    \/ SortClass(a) < SortClass(b)
    \/ SortClass(a) = SortClass(b) /\ a.v < b.v

(***************************************************************************)
(* Items of a FEED_DATA data list.                                         *)
(*   "list"       a JSON array, els its elements                           *)
(*   "str_list"   a JSON string whose text is a JSON array of els          *)
(*   "str_scalar" a JSON string whose text is JSON, but no array           *)
(*   "str_bad"    a JSON string whose text is not JSON                     *)
(*   "scalar"     a number, a boolean, null or an object                   *)
(***************************************************************************)
Item(t, els) == [t |-> t, els |-> els]

TS == {1, 2, 3}
PR == {1, 2}

WellFormedItems == {Item("list", <<Num(ts), Num(p)>>) : ts \in TS, p \in PR}

MalformedItems ==
    { Item("list", <<Num(1)>>),
      Item("list", <<Num(1), Num(1), Num(1)>>),
      Item("list", <<Str, Num(1)>>),
      Item("list", <<Num(1), Nested>>),
      Item("str_bad", <<>>),
      Item("str_scalar", <<>>),
      Item("scalar", <<>>) }

StringItems == {Item("str_list", <<Num(2), Num(2)>>)}

Items == WellFormedItems \cup MalformedItems \cup StringItems

SeqsUpTo(S, n) == UNION {[1..m -> S] : m \in 0..n}

\* The data field: absent, a JSON array of items, or a non-zero number.
DataValues ==
    {NoData, [t |-> "number", items |-> <<>>]}
        \cup {[t |-> "list", items |-> its] : its \in SeqsUpTo(Items, MaxBatch)}

Row(ts, p) == [timestamp |-> ts, price |-> p]

(***************************************************************************)
(* DatabaseManager                                                         *)
(***************************************************************************)
\* save_bulk_data, lines 29-46: the (timestamp, price) tuples kept from the list.
RECURSIVE cleaned_data(_)
cleaned_data(items) ==
    IF items = <<>> THEN <<>>
    ELSE LET item == Head(items)
             rest == cleaned_data(Tail(items))
         IN  IF item.t \in {"list", "str_list"} /\ Len(item.els) >= 2
             THEN <<Row(item.els[1], item.els[2])>> \o rest
             ELSE rest

RECURSIVE SeqToBag(_)
SeqToBag(s) == IF s = <<>> THEN EmptyBag ELSE SetToBag({Head(s)}) (+) SeqToBag(Tail(s))

\* executemany inside BEGIN ... COMMIT: it raises when the storage layer
\* fails or a parameter cannot be bound.
InsertFails(rows, f) ==
    \/ f
    \/ \E i \in 1..Len(rows) : ~Bindable(rows[i].timestamp) \/ ~Bindable(rows[i].price)

\* (mutant) the batch replaces the table instead of being added to it.
save_bulk_data_replace(data, st, f) ==
    IF data.t = "number" THEN [raised |-> TRUE, count |-> 0, store |-> st]
    ELSE IF data.items = <<>> THEN [raised |-> FALSE, count |-> 0, store |-> st]
    ELSE LET rows == cleaned_data(data.items)
         IN  IF rows = <<>> THEN [raised |-> FALSE, count |-> 0, store |-> st]
             ELSE IF InsertFails(rows, f)
                  THEN [raised |-> FALSE, count |-> 0, store |-> st]
                  ELSE [raised |-> FALSE, count |-> Len(rows), store |-> SeqToBag(rows)]

\* save_bulk_data(data_list): [raised, count, store].  Iterating a number
\* raises TypeError out of the method; a failure inside the transaction is
\* caught, rolled back and answered with 0.
save_bulk_data(data, st, f) ==
    IF data.t = "number" THEN [raised |-> TRUE, count |-> 0, store |-> st]
    ELSE IF data.items = <<>> THEN [raised |-> FALSE, count |-> 0, store |-> st]
    ELSE LET rows == cleaned_data(data.items)
         IN  IF rows = <<>> THEN [raised |-> FALSE, count |-> 0, store |-> st]
             ELSE IF InsertFails(rows, f)
                  THEN [raised |-> FALSE, count |-> 0, store |-> st]
                  ELSE [raised |-> FALSE, count |-> Len(rows),
                        store |-> st (+) SeqToBag(rows)]

\* The rows of the table in an order ORDER BY timestamp DESC may produce;
\* rows of equal timestamp come in any order.
RECURSIVE DescOrders(_)
DescOrders(b) ==
    IF b = EmptyBag THEN {<<>>}
    ELSE LET S == BagToSet(b)
             top == {m \in S : \A o \in S : ~SortLess(m.timestamp, o.timestamp)}
         IN  UNION {{<<m>> \o t : t \in DescOrders(b (-) SetToBag({m}))} : m \in top}

Reverse(s) == [i \in 1..Len(s) |-> s[Len(s) + 1 - i]]

\* (mutant) the [::-1] is missing: newest first.
get_training_data_desc(st, limit) ==
    {LET rows == SubSeq(o, 1, Min(limit, Len(o)))
     IN  [i \in 1..Len(rows) |-> rows[i].price] : o \in DescOrders(st)}

\* get_training_data(limit): the lists of prices the call may return.
get_training_data(st, limit) ==
    {LET rows == SubSeq(o, 1, Min(limit, Len(o)))
     IN  Reverse([i \in 1..Len(rows) |-> rows[i].price]) : o \in DescOrders(st)}

\* len(get_training_data(limit))
training_len(st, limit) == Min(limit, BagCardinality(st))

(***************************************************************************)
(* ServerCore: the request handlers.  Each returns [raised, resp, store]:  *)
(* raised says an exception left the handler, resp then carries str(e).    *)
(***************************************************************************)
ErrorResp(m) == [status |-> "error", msg |-> m]
Returned(r, st) == [raised |-> FALSE, resp |-> r, store |-> st]
Raised(m, st) == [raised |-> TRUE, resp |-> ErrorResp(m), store |-> st]

\* `if not data`: an absent field defaults to [], and [] is falsy.
Falsy(data) == data.t = "absent" \/ (data.t = "list" /\ data.items = <<>>)

_handle_feed_data(r, st, f) ==
    IF Falsy(r.data) THEN Returned(ErrorResp("No data provided"), st)
    ELSE LET s == save_bulk_data(r.data, st, f)
         IN  IF s.raised THEN Raised("'int' object is not iterable", st)
             ELSE Returned([status |-> "saved", count |-> s.count], s.store)

\* (mutant) the answer follows the number of PREDICT requests seen so far
\* instead of the number of stored ticks.
_handle_predict_counting(r, st, f) ==
    IF ~r.price.present THEN Returned(ErrorResp("No price provided"), st)
    ELSE IF f THEN Raised("sqlite3.OperationalError", st)
    ELSE IF Len(predicts) + 1 < INPUT_WINDOW
         THEN Returned([type |-> "WAIT",
                        msg |-> <<"Insufficient data", Len(predicts) + 1, INPUT_WINDOW>>], st)
         ELSE Returned([type |-> "PATH", price |-> r.price.v,
                        msg |-> "Prediction available"], st)

_handle_predict(r, st, f) ==
    IF ~r.price.present THEN Returned(ErrorResp("No price provided"), st)
    ELSE IF f THEN Raised("sqlite3.OperationalError", st)
    ELSE LET n == training_len(st, INPUT_WINDOW)
         IN  IF n < INPUT_WINDOW
             THEN Returned([type |-> "WAIT",
                            msg |-> <<"Insufficient data", n, INPUT_WINDOW>>], st)
             ELSE Returned([type |-> "PATH", price |-> r.price.v,
                            msg |-> "Prediction available"], st)

\* Past the length check, model.train(training_data) lacks its second
\* argument and the finally clause names an undefined client_socket: the
\* NameError replaces whatever the try block returned.
_handle_train(r, st, f) ==
    IF f THEN Raised("sqlite3.OperationalError", st)
    ELSE IF training_len(st, TRAIN_LIMIT) < INPUT_WINDOW + TOTAL_PREDICT_TICKS
         THEN Returned(ErrorResp("InsufficientData"), st)
         ELSE Raised("name 'client_socket' is not defined", st)

\* (mutant) the call reaches ModelEngine.train, which fits and saves the
\* model before the finally clause raises.
_handle_train_artifact_saved(st, f, art) ==
    IF ~f /\ training_len(st, TRAIN_LIMIT) >= INPUT_WINDOW + TOTAL_PREDICT_TICKS + TRAIN_MARGIN
    THEN art + 1
    ELSE art

\* The model file after _handle_train.  Only ModelEngine.train saves the
\* model; the handler calls it with one argument, which raises TypeError
\* before its body runs, so the file is the one there was.
_handle_train_artifact(st, f, art) == art

\* (mutant) the fixed text "unknown type".
UnknownMsg_fixed(type) == "unknown type"

\* f"Unknown request type: {req_type}"
UnknownMsg(type) ==
    IF type = "absent" THEN "Unknown request type: None"
    ELSE "Unknown request type: OTHER"

\* _process_request: req.get('type') runs before the try block, so a JSON
\* value that is no object raises AttributeError out of the method; what a
\* handler raises is turned into an error response.
_process_request(r, st, f) ==
    IF r.json # "object" THEN Raised("AttributeError", st)
    ELSE LET h == CASE r.type = "FEED_DATA" -> _handle_feed_data(r, st, f)
                    [] r.type = "PREDICT" -> _handle_predict(r, st, f)
                    [] r.type = "TRAIN" -> _handle_train(r, st, f)
                    [] OTHER -> Returned(ErrorResp(UnknownMsg(r.type)), st)
         IN  Returned(h.resp, h.store)

InvalidJSON == ErrorResp("Invalid JSON")

(***************************************************************************)
(* One connection: ServerCore._handle_client (SocketHandler._handle_client *)
(* and _process_message are the same loop).                                *)
(***************************************************************************)
ByteSeqs(n) == UNION {[1..m -> Bytes] : m \in 1..n}

\* (mutant) buffer = data
buffer_set(buf, data) == data

\* buffer += data
buffer_add(buf, data) == buf \o data

\* recv() returns a chunk: decode it and append it to the buffer.  A chunk
\* that does not decode ends the loop through `except Exception`.
Recv ==
    /\ pc = "recv"
    /\ \E chunk \in ByteSeqs(MaxStream - Len(recvd)) :
          /\ recvd' = recvd \o chunk
          /\ LET d == decode(chunk)
             IN  IF d.ok
                 THEN /\ buffer' = buffer_add(buffer, d.s)
                      /\ pc' = "lines"
                      /\ closedBy' = closedBy
                 ELSE /\ buffer' = buffer
                      /\ pc' = "closed"
                      /\ closedBy' = "exception"
    /\ UNCHANGED <<sent, dispatched, storeVars, predictVars, engineVars, threadVars, txnVars, lifeVars, artifact>>

\* recv() returns b'': the peer has closed, the loop breaks.
PeerClose ==
    /\ pc = "recv"
    /\ pc' = "closed"
    /\ closedBy' = "peer"
    /\ UNCHANGED <<recvd, buffer, sent, dispatched, storeVars, predictVars, engineVars, threadVars, txnVars, lifeVars, artifact>>

\* One turn of `while '\n' in buffer`.
ProcessLine ==
    /\ pc = "lines"
    /\ HasNL(buffer)
    /\ buffer' = split_rest(buffer)
    /\ LET msg_str == strip(split_head(buffer))
       IN  IF msg_str = <<>>
           THEN UNCHANGED <<sent, dispatched, pc, closedBy, storeVars>>
           ELSE /\ dispatched' = Append(dispatched, msg_str)
                /\ LET j == json_loads(msg_str)
                   IN  IF ~j.ok
                       THEN /\ sent' = Append(sent, InvalidJSON)
                            /\ UNCHANGED <<pc, closedBy, storeVars>>
                       ELSE LET p == _process_request(j.val, store, FALSE)
                            IN  /\ req' = j.val
                                /\ fault' = FALSE
                                /\ IF p.raised
                                   THEN /\ pc' = "closed"
                                        /\ closedBy' = "exception"
                                        /\ UNCHANGED <<sent, resp, store>>
                                   ELSE /\ sent' = Append(sent, p.resp)
                                        /\ resp' = p.resp
                                        /\ store' = p.store
                                        /\ UNCHANGED <<pc, closedBy>>
    /\ UNCHANGED <<recvd, predictVars, engineVars, threadVars, txnVars, lifeVars, artifact>>

\* No newline is left in the buffer: back to recv().
LinesDone ==
    /\ pc = "lines"
    /\ ~HasNL(buffer)
    /\ pc' = "recv"
    /\ UNCHANGED <<recvd, buffer, sent, dispatched, closedBy, storeVars, predictVars, engineVars, threadVars, txnVars, lifeVars, artifact>>

NoRequest == [json |-> "none", type |-> "absent", data |-> NoData, price |-> NoPrice]
NoResponse == [status |-> "none"]

\* A connection has been accepted; nothing has been received.  The store
\* variables rest at their idle values.
InitConn ==
    /\ recvd = <<>>
    /\ buffer = <<>>
    /\ sent = <<>>
    /\ dispatched = <<>>
    /\ pc = "recv"
    /\ closedBy = ""
    /\ store = EmptyBag
    /\ req = NoRequest
    /\ fault = FALSE
    /\ resp = NoResponse
    /\ server = "ServerCore"
    /\ tick_buffer = <<>>
    /\ predicts = <<>>
    /\ prices_list = <<>>
    /\ timestamps_list = <<>>
    /\ trained = NoResult
    /\ predicted = NoResult
    /\ features = <<>>
    /\ threads = [c \in Conns |-> "none"]
    /\ backlog = 0
    /\ accept_loop = 0
    /\ lock = 0
    /\ txn = [c \in Conns |-> <<>>]
    /\ batch = [c \in Conns |-> <<>>]
    /\ writer = 0
    /\ reply = [c \in Conns |-> 0]
    /\ acked = [c \in Conns |-> 0]
    /\ seen = EmptyBag
    /\ boot_pc = "accept"
    /\ environment = [db_ok |-> TRUE, model_file |-> "absent", port_free |-> TRUE]
    /\ model_state = "fresh"
    /\ listener = "listening"
    /\ running = TRUE
    /\ ready = TRUE
    /\ clients = 0
    /\ shutdowns = 0
    /\ artifact = 0

NextConn == Recv \/ PeerClose \/ ProcessLine \/ LinesDone

SpecConn == InitConn /\ [][NextConn]_vars

(***************************************************************************)
(* What the byte stream received so far holds, read off recvd alone.       *)
(***************************************************************************)
RECURSIVE LinesOf(_, _)
LinesOf(bs, cur) ==
    IF bs = <<>> THEN <<>>
    ELSE IF Head(bs) = NL THEN <<cur>> \o LinesOf(Tail(bs), <<>>)
    ELSE LinesOf(Tail(bs), Append(cur, Head(bs)))

RECURSIVE AfterLastNL(_, _)
AfterLastNL(bs, cur) ==
    IF bs = <<>> THEN cur
    ELSE IF Head(bs) = NL THEN AfterLastNL(Tail(bs), <<>>)
    ELSE AfterLastNL(Tail(bs), Append(cur, Head(bs)))

Ascii(bs) == \A i \in 1..Len(bs) : bs[i] \notin {"L", "C"}
Blank(l) == decode(l).ok /\ \A i \in 1..Len(l) : l[i] = SP
ValidJSON(l) == decode(l).ok /\ json_loads(decode(l).s).ok
ObjectLine(l) == ValidJSON(l) /\ json_loads(decode(l).s).val.json = "object"
NotBlank(l) == ~Blank(l)
NonBlankLines == SelectSeq(LinesOf(recvd, <<>>), NotBlank)
IsPrefix(a, b) == Len(a) <= Len(b) /\ SubSeq(b, 1, Len(a)) = a

\* The handler is not in the middle of a chunk.
Quiescent == pc \in {"recv", "closed"}

\* C1: on a connection whose complete lines are each either not valid JSON
\* or a JSON object, once the handler has worked through what it received,
\* every line has exactly one response, in order, the response of a line
\* that is not valid JSON is the "Invalid JSON" error, and no exception has
\* closed the connection.
C1_InvalidJsonAnswered ==
    LET nb == NonBlankLines
    IN  ( /\ Quiescent
          /\ AfterLastNL(recvd, <<>>) = <<>>
          /\ \A i \in 1..Len(nb) : ~ValidJSON(nb[i]) \/ ObjectLine(nb[i]) )
        => /\ closedBy # "exception"
           /\ Len(sent) = Len(nb)
           /\ \A i \in 1..Len(nb) : (sent[i] = InvalidJSON) <=> ~ValidJSON(nb[i])

\* C2: on a connection of ASCII bytes whose complete lines all parse as
\* JSON, every line has been answered and no exception has closed the
\* connection.
C2_NoExceptionEscapes ==
    LET nb == NonBlankLines
    IN  ( /\ Quiescent
          /\ Ascii(recvd)
          /\ \A i \in 1..Len(nb) : ValidJSON(nb[i]) )
        => /\ closedBy # "exception"
           /\ Len(sent) = Len(nb)

\* C3: on a connection of ASCII bytes, once the handler has worked through
\* what it received, the responses sent are one per complete non-blank
\* line, in the order of the lines.
C3_OneResponsePerLine ==
    LET nb == NonBlankLines
    IN  (Quiescent /\ Ascii(recvd))
        => /\ Len(sent) = Len(nb)
           /\ \A i \in 1..Len(nb) : (sent[i] = InvalidJSON) <=> ~ValidJSON(nb[i])

RECURSIVE StrippedMsgs(_)
StrippedMsgs(lines) ==
    IF lines = <<>> THEN <<>>
    ELSE LET d == decode(Head(lines))
         IN  <<IF d.ok THEN strip(d.s) ELSE <<"?">> >> \o StrippedMsgs(Tail(lines))

RECURSIVE RawMsgs(_)
RawMsgs(lines) ==
    IF lines = <<>> THEN <<>>
    ELSE LET d == decode(Head(lines))
         IN  <<IF d.ok THEN d.s ELSE <<"?">> >> \o RawMsgs(Tail(lines))

\* C4 as amended: what has been dispatched is a prefix of the complete
\* non-blank lines received, each with its leading and trailing whitespace
\* stripped; and whenever the handler waits in recv() every complete line
\* has been dispatched and the buffer is exactly the bytes received after
\* the last newline.
C4_BufferedUntilNewline ==
    LET msgs == StrippedMsgs(NonBlankLines)
    IN  /\ IsPrefix(dispatched, msgs)
        /\ pc = "recv" =>
              /\ dispatched = msgs
              /\ buffer = decode(AfterLastNL(recvd, <<>>)).s
              /\ ~HasNL(buffer)

\* C4 as stated: the dispatched message is exactly the bytes of its line.
C4_DispatchedIsExactLine ==
    LET msgs == RawMsgs(NonBlankLines)
    IN  /\ IsPrefix(dispatched, msgs)
        /\ pc = "recv" =>
              /\ dispatched = msgs
              /\ buffer = decode(AfterLastNL(recvd, <<>>)).s

\* A first message, sent with a leading blank, was dispatched stripped and
\* answered; the byte of a second one, not yet ended by a newline, waits in
\* the buffer.
C4_Witness ==
    /\ pc = "recv"
    /\ dispatched = << <<"{", "}">> >>
    /\ Len(sent) = 1
    /\ buffer = <<"{">>
    /\ recvd = <<SP, "{", "}", NL, "{">>

(***************************************************************************)
(* Requests answered by ServerCore._process_request, one at a time.        *)
(***************************************************************************)
Request(type, data, price) ==
    [json |-> "object", type |-> type, data |-> data, price |-> price]

Price(p) == [present |-> TRUE, v |-> p]

FeedRequests == {Request("FEED_DATA", d, NoPrice) : d \in DataValues}
PredictRequests == {Request("PREDICT", NoData, pr) : pr \in {NoPrice} \cup {Price(p) : p \in PR}}
UnknownRequests == {Request(t, NoData, NoPrice) : t \in {"OTHER", "absent"}}

InitStore ==
    /\ recvd = <<>>
    /\ buffer = <<>>
    /\ sent = <<>>
    /\ dispatched = <<>>
    /\ pc = "recv"
    /\ closedBy = ""
    /\ store = EmptyBag
    /\ req = NoRequest
    /\ fault = FALSE
    /\ resp = NoResponse
    /\ server = "ServerCore"
    /\ tick_buffer = <<>>
    /\ predicts = <<>>
    /\ prices_list = <<>>
    /\ timestamps_list = <<>>
    /\ trained = NoResult
    /\ predicted = NoResult
    /\ features = <<>>
    /\ threads = [c \in Conns |-> "none"]
    /\ backlog = 0
    /\ accept_loop = 0
    /\ lock = 0
    /\ txn = [c \in Conns |-> <<>>]
    /\ batch = [c \in Conns |-> <<>>]
    /\ writer = 0
    /\ reply = [c \in Conns |-> 0]
    /\ acked = [c \in Conns |-> 0]
    /\ seen = EmptyBag
    /\ boot_pc = "accept"
    /\ environment = [db_ok |-> TRUE, model_file |-> "absent", port_free |-> TRUE]
    /\ model_state = "fresh"
    /\ listener = "listening"
    /\ running = TRUE
    /\ ready = TRUE
    /\ clients = 0
    /\ shutdowns = 0
    /\ artifact = 0

\* resp = self._process_request(req), for the next request of a client.
Answer(r, f) ==
    LET p == _process_request(r, store, f)
    IN  /\ req = NoRequest
        /\ BagCardinality(p.store) <= MaxStore
        /\ req' = r
        /\ fault' = f
        /\ resp' = p.resp
        /\ store' = p.store

FeedData ==
    /\ \E r \in FeedRequests, f \in BOOLEAN : Answer(r, f)
    /\ UNCHANGED <<connVars, predictVars, engineVars, threadVars, txnVars, lifeVars, artifact>>

Predict ==
    /\ \E r \in PredictRequests, f \in BOOLEAN : Answer(r, f)
    /\ UNCHANGED <<connVars, predictVars, engineVars, threadVars, txnVars, lifeVars, artifact>>

Train ==
    /\ \E f \in BOOLEAN :
          /\ Answer(Request("TRAIN", NoData, NoPrice), f)
          /\ artifact' = _handle_train_artifact(store, f, artifact)
    /\ UNCHANGED <<connVars, predictVars, engineVars, threadVars, txnVars, lifeVars>>

Unknown ==
    /\ \E r \in UnknownRequests : Answer(r, FALSE)
    /\ UNCHANGED <<connVars, predictVars, engineVars, threadVars, txnVars, lifeVars, artifact>>

\* sendall(response): the handler is back at the top of its loop.
Respond ==
    /\ req # NoRequest
    /\ req' = NoRequest
    /\ fault' = FALSE
    /\ resp' = NoResponse
    /\ UNCHANGED <<store, connVars, predictVars, engineVars, threadVars, txnVars, lifeVars, artifact>>

NextStore == FeedData \/ Predict \/ Train \/ Unknown \/ Respond

SpecStore == InitStore /\ [][NextStore]_vars

(***************************************************************************)
(* FEED_DATA, as the claims read it.                                       *)
(***************************************************************************)
\* A [timestamp, price] pair of two numbers (or the string that encodes one).
IsPair(item) ==
    /\ item.t \in {"list", "str_list"}
    /\ Len(item.els) = 2
    /\ item.els[1].k = "num"
    /\ item.els[2].k = "num"

PairRow(item) == Row(item.els[1], item.els[2])
PairsOf(items) == SelectSeq(items, IsPair)
RowsOf(items) == [i \in 1..Len(items) |-> PairRow(items[i])]

WellFormedBatch(d) ==
    /\ d.t = "list"
    /\ Len(d.items) >= 1
    /\ \A i \in 1..Len(d.items) : d.items[i].t = "list" /\ IsPair(d.items[i])

Saved(n) == [status |-> "saved", count |-> n]
IsError(r) == "status" \in DOMAIN r /\ r.status = "error"

Perms(n) == {f \in [1..n -> 1..n] : \A i, j \in 1..n : i # j => f[i] # f[j]}

\* r lists the prices of rows, each once, by ascending timestamp.
AscendingPricesOf(r, rows) ==
    /\ Len(r) = Len(rows)
    /\ \E f \in Perms(Len(rows)) :
          /\ \A i \in 1..Len(rows) : r[i] = rows[f[i]].price
          /\ \A i \in 1..(Len(rows) - 1) :
                ~SortLess(rows[f[i + 1]].timestamp, rows[f[i]].timestamp)

\* Every stored tick is older than every tick of the batch.
AllOlder(st, rows) ==
    \A s \in BagToSet(st) : \A i \in 1..Len(rows) : SortLess(s.timestamp, rows[i].timestamp)

NumericStore(st) == \A s \in BagToSet(st) : s.timestamp.k = "num" /\ s.price.k = "num"

\* No stored tick shares a timestamp with a tick of the batch.
NoTies(st, rows) ==
    \A s \in BagToSet(st) : \A i \in 1..Len(rows) : s.timestamp # rows[i].timestamp

C6_EmptyOrMalformedRejected ==
    [][ ( /\ req'.type = "FEED_DATA"
          /\ req'.data.t \in {"absent", "list"}
          /\ PairsOf(req'.data.items) = <<>> )
        => /\ IsError(resp')
           /\ store' = store ]_vars

\* C7: without a storage fault, save_bulk_data on a list adds exactly the
\* well-formed pairs of the list as rows and returns their number.
C7_MalformedFiltered ==
    [][ ( /\ req'.type = "FEED_DATA"
          /\ req'.data.t = "list"
          /\ req'.data.items # <<>>
          /\ ~fault' )
        => /\ store' = store (+) SeqToBag(RowsOf(PairsOf(req'.data.items)))
           /\ resp' = Saved(Len(PairsOf(req'.data.items))) ]_vars

\* C8: a storage fault during the insert transaction leaves the store as it
\* was and the FEED_DATA response reports an error.
C8_FaultReported ==
    [][ ( /\ req'.type = "FEED_DATA"
          /\ req'.data.t = "list"
          /\ PairsOf(req'.data.items) # <<>>
          /\ fault' )
        => /\ store' = store
           /\ IsError(resp') ]_vars

(***************************************************************************)
(* PREDICT against the two servers of the repository: ServerCore           *)
(* (server_src) and FastBrain (src/main.py).                               *)
(***************************************************************************)
\* FastBrain.predict(price), reached from handle_client for a PREDICT
\* message: it returns {"type": "WAIT"} and leaves tick_buffer alone.
FastBrain_predict(price) == [type |-> "WAIT"]

InitPredict ==
    /\ recvd = <<>>
    /\ buffer = <<>>
    /\ sent = <<>>
    /\ dispatched = <<>>
    /\ pc = "recv"
    /\ closedBy = ""
    /\ store = EmptyBag
    /\ req = NoRequest
    /\ fault = FALSE
    /\ resp = NoResponse
    /\ server \in {"ServerCore", "FastBrain"}
    /\ tick_buffer = <<>>
    /\ predicts = <<>>
    /\ prices_list = <<>>
    /\ timestamps_list = <<>>
    /\ trained = NoResult
    /\ predicted = NoResult
    /\ features = <<>>
    /\ threads = [c \in Conns |-> "none"]
    /\ backlog = 0
    /\ accept_loop = 0
    /\ lock = 0
    /\ txn = [c \in Conns |-> <<>>]
    /\ batch = [c \in Conns |-> <<>>]
    /\ writer = 0
    /\ reply = [c \in Conns |-> 0]
    /\ acked = [c \in Conns |-> 0]
    /\ seen = EmptyBag
    /\ boot_pc = "accept"
    /\ environment = [db_ok |-> TRUE, model_file |-> "absent", port_free |-> TRUE]
    /\ model_state = "fresh"
    /\ listener = "listening"
    /\ running = TRUE
    /\ ready = TRUE
    /\ clients = 0
    /\ shutdowns = 0
    /\ artifact = 0

\* A PREDICT request with a price, answered by ServerCore.
PredictCore ==
    /\ server = "ServerCore"
    /\ Len(predicts) < INPUT_WINDOW + MaxExtra
    /\ \E p \in PR :
          /\ Answer(Request("PREDICT", NoData, Price(p)), FALSE)
          /\ predicts' = Append(predicts, p)
    /\ UNCHANGED <<connVars, server, tick_buffer, engineVars, threadVars, txnVars, lifeVars, artifact>>

\* A PREDICT message with a price, answered by FastBrain.
PredictBrain ==
    /\ server = "FastBrain"
    /\ req = NoRequest
    /\ Len(predicts) < INPUT_WINDOW + MaxExtra
    /\ \E p \in PR :
          /\ req' = Request("PREDICT", NoData, Price(p))
          /\ resp' = FastBrain_predict(p)
          /\ predicts' = Append(predicts, p)
    /\ UNCHANGED <<connVars, store, fault, server, tick_buffer, engineVars, threadVars, txnVars, lifeVars, artifact>>

\* A FEED_DATA request of one well-formed tick, answered by ServerCore.
FeedTick ==
    /\ server = "ServerCore"
    /\ \E item \in WellFormedItems :
          Answer(Request("FEED_DATA", [t |-> "list", items |-> <<item>>], NoPrice), FALSE)
    /\ UNCHANGED <<connVars, predictVars, engineVars, threadVars, txnVars, lifeVars, artifact>>

NextPredict == PredictCore \/ PredictBrain \/ FeedTick \/ Respond

SpecPredict == InitPredict /\ [][NextPredict]_vars

\* C9: the first INPUT_WINDOW - 1 PREDICT requests are each answered WAIT,
\* and the INPUT_WINDOW-th and every later one is answered PATH with a path
\* of OUTPUT_STEPS numbers.
C9_WaitThenPath ==
    (req.type = "PREDICT" /\ predicts # <<>>)
    => /\ "type" \in DOMAIN resp
       /\ Len(predicts) < INPUT_WINDOW => resp.type = "WAIT"
       /\ Len(predicts) >= INPUT_WINDOW =>
             /\ resp.type = "PATH"
             /\ "path" \in DOMAIN resp
             /\ Len(resp.path) = OUTPUT_STEPS

\* C10: the live window never holds more than INPUT_WINDOW prices, and once
\* more than INPUT_WINDOW prices have been pushed by PREDICT requests it
\* holds the last INPUT_WINDOW of them in push order.
C10_WindowHoldsLastPushes ==
    server = "FastBrain"
    => /\ Len(tick_buffer) <= INPUT_WINDOW
       /\ Len(predicts) > INPUT_WINDOW =>
             tick_buffer = SubSeq(predicts, Len(predicts) - INPUT_WINDOW + 1, Len(predicts))

(***************************************************************************)
(* TRAIN against a store that grows one tick at a time.                    *)
(***************************************************************************)
InitTrain ==
    /\ recvd = <<>>
    /\ buffer = <<>>
    /\ sent = <<>>
    /\ dispatched = <<>>
    /\ pc = "recv"
    /\ closedBy = ""
    /\ store = EmptyBag
    /\ req = NoRequest
    /\ fault = FALSE
    /\ resp = NoResponse
    /\ server = "ServerCore"
    /\ tick_buffer = <<>>
    /\ predicts = <<>>
    /\ prices_list = <<>>
    /\ timestamps_list = <<>>
    /\ trained = NoResult
    /\ predicted = NoResult
    /\ features = <<>>
    /\ threads = [c \in Conns |-> "none"]
    /\ backlog = 0
    /\ accept_loop = 0
    /\ lock = 0
    /\ txn = [c \in Conns |-> <<>>]
    /\ batch = [c \in Conns |-> <<>>]
    /\ writer = 0
    /\ reply = [c \in Conns |-> 0]
    /\ acked = [c \in Conns |-> 0]
    /\ seen = EmptyBag
    /\ boot_pc = "accept"
    /\ environment = [db_ok |-> TRUE, model_file |-> "absent", port_free |-> TRUE]
    /\ model_state = "fresh"
    /\ listener = "listening"
    /\ running = TRUE
    /\ ready = TRUE
    /\ clients = 0
    /\ shutdowns = 0
    /\ artifact = 0

\* resp = self._process_request(req) for a request r, no storage fault.
AnswerTrainSpec(r) ==
    LET p == _process_request(r, store, FALSE)
    IN  /\ req = NoRequest
        /\ req' = r
        /\ fault' = FALSE
        /\ resp' = p.resp
        /\ store' = p.store

\* A FEED_DATA request of one well-formed tick.
FeedOneTick ==
    /\ BagCardinality(store) < MaxTicks
    /\ \E item \in WellFormedItems :
          AnswerTrainSpec(Request("FEED_DATA", [t |-> "list", items |-> <<item>>], NoPrice))
    /\ UNCHANGED <<connVars, predictVars, engineVars, threadVars, txnVars, lifeVars, artifact>>

\* A TRAIN request.
TrainRequest ==
    /\ AnswerTrainSpec(Request("TRAIN", NoData, NoPrice))
    /\ artifact' = _handle_train_artifact(store, FALSE, artifact)
    /\ UNCHANGED <<connVars, predictVars, engineVars, threadVars, txnVars, lifeVars>>

NextTrain == FeedOneTick \/ TrainRequest \/ Respond

SpecTrain == InitTrain /\ [][NextTrain]_vars

\* The length below which the spec and ModelEngine.train refuse to train.
TrainThreshold == INPUT_WINDOW + TOTAL_PREDICT_TICKS + TRAIN_MARGIN

\* C11: a TRAIN request issued while the store holds fewer than
\* W + horizon + margin ticks is answered with the insufficient-data error.
C11_InsufficientDataReported ==
    (req.type = "TRAIN" /\ BagCardinality(store) < TrainThreshold)
    => resp = ErrorResp("InsufficientData")

\* C12: a TRAIN request issued while the store holds at least
\* W + horizon + margin ticks is answered {status: "ok", val_loss: number}.
C12_TrainReturnsOk ==
    (req.type = "TRAIN" /\ BagCardinality(store) >= TrainThreshold)
    => /\ resp.status = "ok"
       /\ "val_loss" \in DOMAIN resp

(***************************************************************************)
(* The server as threads: the accept loop of ServerCore.start (the same    *)
(* loop in SocketHandler.start and at the bottom of src/main.py) and one   *)
(* thread per accepted connection.  A thread is "none" (not accepted yet), *)
(* "recv" (blocked in recv), inside the handling of one request, or        *)
(* "closed".                                                               *)
(***************************************************************************)
\* What a thread is inside while it handles a request of each type.
\* ServerCore: _handle_feed_data, _handle_train, _handle_predict.
\* FastBrain: brain.save_bulk_data, brain.train_memory, brain.predict.
Handling(srv, type) ==
    CASE type = "FEED_DATA" -> "feed"
      [] type = "TRAIN" -> IF srv = "FastBrain" THEN "train_memory" ELSE "handle_train"
      [] type = "PREDICT" -> IF srv = "FastBrain" THEN "predict" ELSE "handle_predict"

Busy == {"feed", "train_memory", "handle_train", "predict", "handle_predict"}

\* (mutant) client_thread.run(): the handler runs in the accept loop's own
\* thread, which then waits for connection c to end.
thread_run(c) == c

\* client_thread.start(): the accept loop waits for nothing.
thread_start(c) == 0

\* (mutant) closing takes every connection down.
close_all(ts, c) == [d \in DOMAIN ts |-> IF ts[d] = "none" THEN "none" ELSE "closed"]

\* finally: client_socket.close(), on the socket of this thread only.
close_client(ts, c) == [ts EXCEPT ![c] = "closed"]

InitThreads ==
    /\ recvd = <<>>
    /\ buffer = <<>>
    /\ sent = <<>>
    /\ dispatched = <<>>
    /\ pc = "recv"
    /\ closedBy = ""
    /\ store = EmptyBag
    /\ req = NoRequest
    /\ fault = FALSE
    /\ resp = NoResponse
    /\ server \in {"ServerCore", "FastBrain"}
    /\ tick_buffer = <<>>
    /\ predicts = <<>>
    /\ prices_list = <<>>
    /\ timestamps_list = <<>>
    /\ trained = NoResult
    /\ predicted = NoResult
    /\ features = <<>>
    /\ threads = [c \in Conns |-> "none"]
    /\ backlog = 0
    /\ accept_loop = 0
    /\ lock = 0
    /\ txn = [c \in Conns |-> <<>>]
    /\ batch = [c \in Conns |-> <<>>]
    /\ writer = 0
    /\ reply = [c \in Conns |-> 0]
    /\ acked = [c \in Conns |-> 0]
    /\ seen = EmptyBag
    /\ boot_pc = "accept"
    /\ environment = [db_ok |-> TRUE, model_file |-> "absent", port_free |-> TRUE]
    /\ model_state = "fresh"
    /\ listener = "listening"
    /\ running = TRUE
    /\ ready = TRUE
    /\ clients = 0
    /\ shutdowns = 0
    /\ artifact = 0

\* A client connects: the connection waits in the listen queue.
Connect ==
    /\ backlog < Cardinality({c \in Conns : threads[c] = "none"})
    /\ backlog' = backlog + 1
    /\ UNCHANGED <<threads, accept_loop, lock, connVars, storeVars, predictVars, engineVars, txnVars, lifeVars, artifact>>

\* server_socket.accept() returns and the connection gets its thread.
Accept ==
    /\ backlog > 0
    /\ IF accept_loop = 0 THEN TRUE ELSE threads[accept_loop] = "closed"
    /\ \E c \in Conns :
          /\ threads[c] = "none"
          /\ \A d \in Conns : threads[d] = "none" => c <= d
          /\ threads' = [threads EXCEPT ![c] = "recv"]
          /\ accept_loop' = thread_start(c)
    /\ backlog' = backlog - 1
    /\ UNCHANGED <<lock, connVars, storeVars, predictVars, engineVars, txnVars, lifeVars, artifact>>

\* A request has arrived on connection c: its thread enters the handler.
\* No handler acquires a lock.
BeginRequest ==
    /\ \E c \in Conns, type \in {"FEED_DATA", "TRAIN", "PREDICT"} :
          /\ threads[c] = "recv"
          /\ threads' = [threads EXCEPT ![c] = Handling(server, type)]
    /\ UNCHANGED <<backlog, accept_loop, lock, connVars, storeVars, predictVars, engineVars, txnVars, lifeVars, artifact>>

\* The handler returns and the response is sent: back to recv.
EndRequest ==
    /\ \E c \in Conns :
          /\ threads[c] \in Busy
          /\ threads' = [threads EXCEPT ![c] = "recv"]
    /\ UNCHANGED <<backlog, accept_loop, lock, connVars, storeVars, predictVars, engineVars, txnVars, lifeVars, artifact>>

\* recv() returns b'' or raises on connection c: its thread leaves the loop
\* and closes its socket.
ConnectionEnds ==
    /\ \E c \in Conns :
          /\ threads[c] = "recv"
          /\ threads' = close_client(threads, c)
    /\ UNCHANGED <<backlog, accept_loop, lock, connVars, storeVars, predictVars, engineVars, txnVars, lifeVars, artifact>>

NextThreads == Connect \/ Accept \/ BeginRequest \/ EndRequest \/ ConnectionEnds

SpecThreads == InitThreads /\ [][NextThreads]_vars

\* C13: at most one predictor train call executes at any moment, and no
\* predictor predict call executes while a train call executes.
C13_TrainExclusive ==
    LET training == {c \in Conns : threads[c] = "train_memory"}
        predicting == {c \in Conns : threads[c] = "predict"}
    IN  /\ Cardinality(training) <= 1
        /\ training # {} => predicting = {}

\* C15: the accept loop never waits on per-connection work: whenever a
\* connection waits in the listen queue the accept loop is waiting for no
\* connection's thread and can accept it, whatever the threads are blocked in.
C15_AcceptNeverBlocked ==
    /\ accept_loop = 0
    /\ backlog > 0 => ENABLED Accept

\* Two connections are blocked, one in recv and one inside a request (a
\* store transaction), while a third connection waits to be accepted.
C15_Witness ==
    /\ backlog > 0
    /\ \E c, d \in Conns : threads[c] = "recv" /\ threads[d] = "feed"

\* C16: when the thread of a connection ends, every other thread is where
\* it was (in recv, or inside its TRAIN or other request, which it goes on
\* to finish) and the accept loop and the listen queue are untouched.
C16_OnlyThatConnectionEnds ==
    [][\A c \in Conns :
          (threads[c] # "closed" /\ threads'[c] = "closed")
          => /\ \A d \in Conns \ {c} : threads'[d] = threads[d]
             /\ accept_loop' = accept_loop
             /\ backlog' = backlog]_vars

\* One connection has ended while another thread is inside a TRAIN request
\* and a third is blocked in recv.
C16_Witness ==
    \E c, d, e \in Conns :
        /\ threads[c] = "closed"
        /\ threads[d] \in {"handle_train", "train_memory"}
        /\ threads[e] = "recv"

(***************************************************************************)
(* Requests of an unknown type (SpecStore).                                *)
(***************************************************************************)
\* A JSON object whose type is missing or none of the three known ones is
\* being answered in the step.
UnknownAnswered == req = NoRequest /\ req'.json = "object"
                   /\ req'.type \notin {"FEED_DATA", "PREDICT", "TRAIN"}

utc_hour(ts) == (ts \div 3600) % 24

\* datetime.utcfromtimestamp(ts).weekday(): Monday is 0, Sunday is 6.
utc_weekday(ts) == ((ts \div 86400) + 3) % 7

\* (mutant) the weekend is left as 5 and 6.
weekday_raw(wd) == wd

\* if wd > 4: wd = 4
weekday_clamped(wd) == IF wd > 4 THEN 4 ELSE wd

_extract_time_features(timestamps) ==
    [i \in 1..Len(timestamps) |->
        <<utc_hour(timestamps[i]), weekday_clamped(utc_weekday(timestamps[i]))>>]

TimestampSet ==
    {d * 86400 + h * 3600 + sec : d \in (-1)..MaxDay, h \in {0, 11, 23}, sec \in {0, 3599}}

InitTime ==
    /\ recvd = <<>>
    /\ buffer = <<>>
    /\ sent = <<>>
    /\ dispatched = <<>>
    /\ pc = "recv"
    /\ closedBy = ""
    /\ store = EmptyBag
    /\ req = NoRequest
    /\ fault = FALSE
    /\ resp = NoResponse
    /\ server = "ServerCore"
    /\ tick_buffer = <<>>
    /\ predicts = <<>>
    /\ prices_list = <<>>
    /\ timestamps_list \in UNION {[1..n -> TimestampSet] : n \in 1..MaxStamps}
    /\ trained = NoResult
    /\ predicted = NoResult
    /\ features = <<>>
    /\ threads = [c \in Conns |-> "none"]
    /\ backlog = 0
    /\ accept_loop = 0
    /\ lock = 0
    /\ txn = [c \in Conns |-> <<>>]
    /\ batch = [c \in Conns |-> <<>>]
    /\ writer = 0
    /\ reply = [c \in Conns |-> 0]
    /\ acked = [c \in Conns |-> 0]
    /\ seen = EmptyBag
    /\ boot_pc = "accept"
    /\ environment = [db_ok |-> TRUE, model_file |-> "absent", port_free |-> TRUE]
    /\ model_state = "fresh"
    /\ listener = "listening"
    /\ running = TRUE
    /\ ready = TRUE
    /\ clients = 0
    /\ shutdowns = 0
    /\ artifact = 0

\* features = self._extract_time_features(timestamps_list)
ExtractTimeFeatures ==
    /\ features = <<>>
    /\ features' = _extract_time_features(timestamps_list)
    /\ UNCHANGED <<prices_list, timestamps_list, trained, predicted,
                   connVars, storeVars, predictVars, threadVars, txnVars, lifeVars, artifact>>

NextTime == ExtractTimeFeatures

SpecTime == InitTime /\ [][NextTime]_vars

\* The day of the week of a timestamp, counted from the Thursday of day 0.
DayOfWeek(ts) ==
    LET names == <<"Thu", "Fri", "Sat", "Sun", "Mon", "Tue", "Wed">>
    IN  names[((ts \div 86400) % 7) + 1]

\* The seconds elapsed since the last UTC midnight.
SecondOfDay(ts) == ts - 86400 * (ts \div 86400)

\* C19: for every timestamp the returned hour is the UTC hour, in 0..23,
\* and the returned weekday is in 0..4 with 0 = Monday, 4 for a Friday and
\* for a Saturday or Sunday.
C19_HourAndWeekday ==
    features # <<>> =>
        /\ Len(features) = Len(timestamps_list)
        /\ \A i \in 1..Len(features) :
              LET ts == timestamps_list[i]
                  hour == features[i][1]
                  wd == features[i][2]
              IN  /\ hour \in 0..23
                  /\ hour * 3600 <= SecondOfDay(ts)
                  /\ SecondOfDay(ts) < (hour + 1) * 3600
                  /\ wd \in 0..4
                  /\ wd = CASE DayOfWeek(ts) = "Mon" -> 0
                            [] DayOfWeek(ts) = "Tue" -> 1
                            [] DayOfWeek(ts) = "Wed" -> 2
                            [] DayOfWeek(ts) = "Thu" -> 3
                            [] OTHER -> 4

\* The features of a Saturday evening and of a Sunday were extracted.
C19_Witness ==
    /\ Len(features) = 2
    /\ DayOfWeek(timestamps_list[1]) = "Sat"
    /\ DayOfWeek(timestamps_list[2]) = "Sun"
    /\ features[1] = <<23, 4>>
    /\ features[2][2] = 4

(***************************************************************************)
(* Floating point.  A float is an integer number of units of 2^-FracBits   *)
(* with at most MantissaBits significant bits; every operation rounds its  *)
(* exact result to the nearest float, ties to the even mantissa, as        *)
(* IEEE 754 does for the float64 values of numpy.                          *)
(***************************************************************************)
Pow2(n) == 2 ^ n

Unit == Pow2(FracBits)

\* The exponent of the float nearest to n/d >= 0.
RECURSIVE FlExp(_, _, _)
FlExp(n, d, e) == IF n < Pow2(MantissaBits) * d * Pow2(e) THEN e ELSE FlExp(n, d, e + 1)

FlRoundPos(n, d) ==
    LET e == FlExp(n, d, 0)
        dd == d * Pow2(e)
        q == n \div dd
        r == n % dd
        up == 2 * r > dd \/ (2 * r = dd /\ q % 2 = 1)
    IN  (IF up THEN q + 1 ELSE q) * Pow2(e)

\* The float nearest to n/d units (d > 0).
fl(n, d) == IF n >= 0 THEN FlRoundPos(n, d) ELSE 0 - FlRoundPos(0 - n, d)

fl_add(a, b) == fl(a + b, 1)
fl_sub(a, b) == fl(a - b, 1)
fl_mul(a, b) == fl(a * b, Unit)

\* a / b; numpy answers nan or inf for b = 0, a value outside the floats.
fl_div(a, b) ==
    IF b = 0 THEN 0 - 999999
    ELSE IF b > 0 THEN fl(a * Unit, b) ELSE fl((0 - a) * Unit, 0 - b)

Isqrt(k) == CHOOSE r \in 0..k : r * r <= k /\ (r + 1) * (r + 1) > k

RECURSIVE SqrtExp(_, _)
SqrtExp(k, e) ==
    IF k < (Pow2(MantissaBits) * Pow2(e)) * (Pow2(MantissaBits) * Pow2(e))
    THEN e ELSE SqrtExp(k, e + 1)

\* np.sqrt(a), a >= 0
fl_sqrt(a) ==
    LET k == a * Unit
        e == SqrtExp(k, 0)
        q == Isqrt(k \div (Pow2(e) * Pow2(e)))
        half == (2 * q + 1) * Pow2(e)
        up == 4 * k > half * half \/ (4 * k = half * half /\ q % 2 = 1)
    IN  (IF up THEN q + 1 ELSE q) * Pow2(e)

\* np.add.reduce on fewer than eight elements: one running sum.
RECURSIVE np_sum(_)
np_sum(xs) ==
    IF xs = <<>> THEN 0
    ELSE fl_add(np_sum(SubSeq(xs, 1, Len(xs) - 1)), xs[Len(xs)])

\* np.mean(xs)
np_mean(xs) == fl(np_sum(xs), Len(xs))

\* np.std(xs): sqrt(mean(abs(xs - mean(xs)) ** 2))
np_std(xs) ==
    LET m == np_mean(xs)
        sq == [i \in 1..Len(xs) |-> fl_mul(fl_sub(xs[i], m), fl_sub(xs[i], m))]
    IN  fl_sqrt(fl(np_sum(sq), Len(xs)))

(***************************************************************************)
(* ModelEngine.train and ModelEngine.predict                               *)
(***************************************************************************)
\* The 1e-6 below which std is replaced, scaled to the floats of the model.
STD_FLOOR == Unit

\* (mutant) std is used as computed.
no_clamp(std) == std

\* if std < 1e-6: std = 1e-6
clamp_std(std) == IF std < STD_FLOOR THEN STD_FLOOR ELSE std

\* (xs - mean) / std
normalize(xs, mean, std) == [i \in 1..Len(xs) |-> fl_div(fl_sub(xs[i], mean), std)]

\* (mutant) range(0, limit + 1, stride)
sample_starts_inclusive(limit) ==
    [k \in 1..((limit + SAMPLE_STRIDE) \div SAMPLE_STRIDE) |-> (k - 1) * SAMPLE_STRIDE]

\* range(0, limit, stride)
sample_starts(limit) ==
    [k \in 1..((limit + SAMPLE_STRIDE - 1) \div SAMPLE_STRIDE) |-> (k - 1) * SAMPLE_STRIDE]

\* (mutant) the slice starts at the last price of the window:
\* prices_arr[i+W-1 : i+W-1+horizon : PREDICT_STRIDE].
future_slice_shifted(prices, i) ==
    LET stop == Min(i + INPUT_WINDOW - 1 + TOTAL_PREDICT_TICKS, Len(prices))
        n == IF stop > i + INPUT_WINDOW - 1
             THEN (stop - (i + INPUT_WINDOW - 1) + PREDICT_STRIDE - 1) \div PREDICT_STRIDE
             ELSE 0
    IN  [k \in 1..n |-> prices[i + INPUT_WINDOW + (k - 1) * PREDICT_STRIDE]]

\* prices_arr[i+W : i+W+horizon : PREDICT_STRIDE], i counted from 0.
future_slice(prices, i) ==
    LET stop == Min(i + INPUT_WINDOW + TOTAL_PREDICT_TICKS, Len(prices))
        n == IF stop > i + INPUT_WINDOW
             THEN (stop - (i + INPUT_WINDOW) + PREDICT_STRIDE - 1) \div PREDICT_STRIDE
             ELSE 0
    IN  [k \in 1..n |-> prices[i + INPUT_WINDOW + 1 + (k - 1) * PREDICT_STRIDE]]

\* (mutant) the target is z-scored with the statistics of the future slice.
target_stats_future(window, future) ==
    [mean |-> np_mean(future), std |-> clamp_std(np_std(future))]

\* mean and std as the loop body holds them when the target is normalized.
target_stats(window, future) ==
    [mean |-> np_mean(window), std |-> clamp_std(np_std(window))]

\* One turn of the loop of train, for the start index i.
train_sample(prices, stamps, i) ==
    LET window == SubSeq(prices, i + 1, i + INPUT_WINDOW)
        mean == np_mean(window)
        std == clamp_std(np_std(window))
        future == future_slice(prices, i)
        ts == target_stats(window, future)
    IN  [start |-> i,
         window |-> window,
         mean |-> mean,
         std |-> std,
         norm_input |-> normalize(window, mean, std),
         time_feat |-> _extract_time_features(<<stamps[i + INPUT_WINDOW]>>)[1],
         future |-> future,
         norm_target |-> normalize(future, ts.mean, ts.std)]

\* self.model.save(config.MODEL_PATH), reached once the fit has returned:
\* the file is written when train answers ok and only then.
model_save(art, result) == IF result.status = "ok" THEN art + 1 ELSE art

\* train(prices_list, timestamps_list); val_loss is what the fit reports.
train(prices, stamps, val_loss) ==
    IF Len(prices) < INPUT_WINDOW + TOTAL_PREDICT_TICKS + TRAIN_MARGIN
    THEN [status |-> "error", msg |-> "InsufficientData", samples |-> <<>>]
    ELSE LET starts == sample_starts(Len(prices) - INPUT_WINDOW - TOTAL_PREDICT_TICKS)
         IN  [status |-> "ok", val_loss |-> val_loss,
              samples |-> [k \in 1..Len(starts) |-> train_sample(prices, stamps, starts[k])]]

\* predict(raw_window, current_timestamp); pred_z is what the network
\* answers for the normalized window.
predict(raw_window, current_timestamp, pred_z) ==
    IF Len(raw_window) < INPUT_WINDOW THEN [status |-> "None"]
    ELSE IF Len(raw_window) > INPUT_WINDOW THEN [status |-> "ValueError"]
    ELSE LET mean == np_mean(raw_window)
             std == clamp_std(np_std(raw_window))
             pred_prices == [k \in 1..Len(pred_z) |-> fl_add(fl_mul(pred_z[k], std), mean)]
         IN  [status |-> "ok",
              raw_window |-> raw_window,
              mean |-> mean,
              std |-> std,
              norm_input |-> normalize(raw_window, mean, std),
              time_feat |-> _extract_time_features(<<current_timestamp>>)[1],
              pred_z |-> pred_z,
              pred_prices |-> pred_prices,
              path |-> [k \in 1..Len(pred_z) |->
                           fl_sub(pred_prices[k], raw_window[Len(raw_window)])]]

\* Prices 3.0 and 5.0, and the outputs -1.0, 0.0 and 2.0 of the network.
PriceVals == {3 * Unit, 5 * Unit}
ZVals == {0 - Unit, 0, 2 * Unit}

\* Timestamps half a day apart, from midnight of day 0 or of day 1.
StampSeq(n, t0) == [k \in 1..n |-> t0 + (k - 1) * 43200]

InitEngine ==
    /\ recvd = <<>>
    /\ buffer = <<>>
    /\ sent = <<>>
    /\ dispatched = <<>>
    /\ pc = "recv"
    /\ closedBy = ""
    /\ store = EmptyBag
    /\ req = NoRequest
    /\ fault = FALSE
    /\ resp = NoResponse
    /\ server = "ServerCore"
    /\ tick_buffer = <<>>
    /\ predicts = <<>>
    /\ prices_list \in UNION {[1..n -> PriceVals] : n \in 0..MaxLen}
    /\ timestamps_list \in {StampSeq(Len(prices_list), t0) : t0 \in {0, 86400}}
    /\ trained = NoResult
    /\ predicted = NoResult
    /\ features = <<>>
    /\ threads = [c \in Conns |-> "none"]
    /\ backlog = 0
    /\ accept_loop = 0
    /\ lock = 0
    /\ txn = [c \in Conns |-> <<>>]
    /\ batch = [c \in Conns |-> <<>>]
    /\ writer = 0
    /\ reply = [c \in Conns |-> 0]
    /\ acked = [c \in Conns |-> 0]
    /\ seen = EmptyBag
    /\ boot_pc = "accept"
    /\ environment = [db_ok |-> TRUE, model_file |-> "absent", port_free |-> TRUE]
    /\ model_state = "fresh"
    /\ listener = "listening"
    /\ running = TRUE
    /\ ready = TRUE
    /\ clients = 0
    /\ shutdowns = 0
    /\ artifact = 0

\* trained = model.train(prices_list, timestamps_list)
EngineTrain ==
    /\ trained = NoResult
    /\ \E val_loss \in {0, 1} : trained' = train(prices_list, timestamps_list, val_loss)
    /\ artifact' = model_save(artifact, trained')
    /\ UNCHANGED <<prices_list, timestamps_list, predicted, features,
                   connVars, storeVars, predictVars, threadVars, txnVars, lifeVars>>

\* predicted = model.predict(raw_window, current_timestamp), for the last
\* n prices of the history and the last timestamp.
EnginePredict ==
    /\ predicted = NoResult
    /\ \E n \in {INPUT_WINDOW - 1, INPUT_WINDOW, INPUT_WINDOW + 1},
          pred_z \in [1..OUTPUT_STEPS -> ZVals] :
          /\ 1 <= n
          /\ n <= Len(prices_list)
          /\ predicted' = predict(SubSeq(prices_list, Len(prices_list) - n + 1, Len(prices_list)),
                                  timestamps_list[Len(timestamps_list)], pred_z)
    /\ UNCHANGED <<prices_list, timestamps_list, trained, features,
                   connVars, storeVars, predictVars, threadVars, txnVars, lifeVars, artifact>>

NextEngine == EngineTrain \/ EnginePredict

SpecEngine == InitEngine /\ [][NextEngine]_vars

(***************************************************************************)
(* The training set and the statistics of a window, as the claims read     *)
(* them.                                                                   *)
(***************************************************************************)
\* ceil(a / b)
Ceil(a, b) == (a + b - 1) \div b

\* The input window of a sample, taken from the history again.
WindowOf(smp) == SubSeq(prices_list, smp.start + 1, smp.start + INPUT_WINDOW)

Constant(xs) == \A i \in 1..Len(xs) : xs[i] = xs[1]

SamplesBuilt == IF trained.status = "ok" THEN trained.samples ELSE <<>>

\* C17: train on a history of length L (with as many timestamps) of at
\* least W + horizon + margin prices builds
\* exactly ceil((L - W - horizon) / stride) samples, for the start indices
\* 0, stride, 2 stride, ... in this order; on a shorter history it returns
\* the insufficient-data error and builds no sample.
C17_SampleCount ==
    trained # NoResult =>
        LET L == Len(prices_list)
        IN  IF L >= TrainThreshold
            THEN /\ trained.status = "ok"
                 /\ Len(trained.samples) = Ceil(L - INPUT_WINDOW - TOTAL_PREDICT_TICKS, SAMPLE_STRIDE)
                 /\ \A k \in 1..Len(trained.samples) :
                       trained.samples[k].start = (k - 1) * SAMPLE_STRIDE
            ELSE /\ trained.status = "error"
                 /\ trained.msg = "InsufficientData"
                 /\ trained.samples = <<>>

\* Two samples were built, for the start indices 0 and stride.
C17_Witness ==
    /\ trained # NoResult
    /\ trained.status = "ok"
    /\ Len(trained.samples) = 2
    /\ trained.samples[2].start = SAMPLE_STRIDE

\* C18: in every sample the target is the future slice normalized with the
\* mean and std of the sample's own input window prices[i : i+W], the pair
\* used for the input; and predict de-normalizes the network's output with
\* the mean and std of the window it was given.
C18_TargetUsesWindowStats ==
    /\ \A k \in 1..Len(SamplesBuilt) :
          LET smp == SamplesBuilt[k]
              m == np_mean(WindowOf(smp))
              sd == IF np_std(WindowOf(smp)) < STD_FLOOR THEN STD_FLOOR
                    ELSE np_std(WindowOf(smp))
          IN  /\ smp.norm_input = normalize(WindowOf(smp), m, sd)
              /\ smp.norm_target = normalize(smp.future, m, sd)
    /\ predicted.status = "ok" =>
          LET m == np_mean(predicted.raw_window)
              sd == IF np_std(predicted.raw_window) < STD_FLOOR THEN STD_FLOOR
                    ELSE np_std(predicted.raw_window)
          IN  predicted.pred_prices =
                 [k \in 1..Len(predicted.pred_z) |-> fl_add(fl_mul(predicted.pred_z[k], sd), m)]

\* A sample whose future slice has another mean than its window, so that
\* its own statistics would give another target; and a prediction was made.
C18_Witness ==
    /\ predicted.status = "ok"
    /\ \E k \in 1..Len(SamplesBuilt) :
          LET smp == SamplesBuilt[k]
          IN  /\ np_mean(smp.future) # smp.mean
              /\ smp.norm_target # normalize(smp.future, np_mean(smp.future), STD_FLOOR)

\* The windows normalized so far, each with the mean and std used for it.
Normalized ==
    {[window |-> SamplesBuilt[k].window, mean |-> SamplesBuilt[k].mean,
      std |-> SamplesBuilt[k].std, norm |-> SamplesBuilt[k].norm_input]
        : k \in 1..Len(SamplesBuilt)}
    \cup (IF predicted.status = "ok"
          THEN {[window |-> predicted.raw_window, mean |-> predicted.mean,
                 std |-> predicted.std, norm |-> predicted.norm_input]}
          ELSE {})

\* C20 as amended: the std used as divisor is never below the floor, so no
\* normalization divides by zero; for a window of equal prices whose
\* computed mean is that price the std is the floor and every normalized
\* value is 0, and for any window of equal prices the normalized values are
\* all the same.
C20_StdNeverBelowFloor ==
    \A n \in Normalized :
        /\ n.std >= STD_FLOOR
        /\ \A i \in 1..Len(n.norm) : n.norm[i] = fl_div(fl_sub(n.window[i], n.mean), n.std)
        /\ Constant(n.window) =>
              /\ \A i \in 1..Len(n.norm) : n.norm[i] = n.norm[1]
              /\ n.mean = n.window[1] =>
                    /\ n.std = STD_FLOOR
                    /\ \A i \in 1..Len(n.norm) : n.norm[i] = 0

\* C20 as stated: for a window of equal prices the std is the floor and
\* every normalized value is 0.
C20_ConstantWindowIsZero ==
    \A n \in Normalized :
        /\ n.std >= STD_FLOOR
        /\ Constant(n.window) =>
              /\ n.std = STD_FLOOR
              /\ \A i \in 1..Len(n.norm) : n.norm[i] = 0

\* A window of equal prices was normalized in training and in prediction,
\* with the std raised to the floor and every value 0.
C20_Witness ==
    /\ predicted.status = "ok"
    /\ Constant(predicted.raw_window)
    /\ predicted.std = STD_FLOOR
    /\ \A i \in 1..INPUT_WINDOW : predicted.norm_input[i] = 0
    /\ \E k \in 1..Len(SamplesBuilt) :
          /\ Constant(SamplesBuilt[k].window)
          /\ SamplesBuilt[k].std = STD_FLOOR
          /\ \A i \in 1..INPUT_WINDOW : SamplesBuilt[k].norm_input[i] = 0

\* The 0-based positions i+W + j*stride_out below i+W+horizon, in order.
TargetPositions(i) ==
    [k \in 1..Ceil(TOTAL_PREDICT_TICKS, PREDICT_STRIDE) |->
        i + INPUT_WINDOW + (k - 1) * PREDICT_STRIDE]

\* C21: for every start index i the loop of train visits, the input window
\* is prices[i .. i+W-1]; the target holds the prices at the positions
\* i+W + j*stride_out for j = 0..K-1, K = horizon / stride_out of them when
\* stride_out divides the horizon as it does in config.py; the time features
\* are those of timestamps[i+W-1]; and every position read is below L.
C21_WindowAndTargetPositions ==
    \A k \in 1..Len(SamplesBuilt) :
        LET smp == SamplesBuilt[k]
            i == smp.start
            L == Len(prices_list)
            pos == TargetPositions(i)
        IN  /\ 0 <= i
            /\ i < L - INPUT_WINDOW - TOTAL_PREDICT_TICKS
            /\ i % SAMPLE_STRIDE = 0
            /\ smp.window = [n \in 1..INPUT_WINDOW |-> prices_list[i + n]]
            /\ Len(smp.future) = Len(pos)
            /\ TOTAL_PREDICT_TICKS % PREDICT_STRIDE = 0 => Len(smp.future) = OUTPUT_STEPS
            /\ \A j \in 1..Len(pos) :
                  /\ pos[j] < L
                  /\ smp.future[j] = prices_list[pos[j] + 1]
            /\ i + INPUT_WINDOW - 1 < Len(timestamps_list)
            /\ smp.time_feat = _extract_time_features(<<timestamps_list[i + INPUT_WINDOW]>>)[1]

\* The second sample of a history whose prices and hours change from one
\* tick to the next: its target has two prices that differ, taken two apart,
\* and its time features differ from those of the tick after the window.
C21_Witness ==
    /\ Len(SamplesBuilt) >= 2
    /\ LET smp == SamplesBuilt[2]
           i == smp.start
       IN  /\ i = SAMPLE_STRIDE
           /\ Len(smp.future) >= 2
           /\ smp.future[1] # smp.future[2]
           /\ prices_list[i + INPUT_WINDOW + 1] # prices_list[i + INPUT_WINDOW + 2]
           /\ smp.time_feat # _extract_time_features(<<timestamps_list[i + INPUT_WINDOW + 1]>>)[1]

(***************************************************************************)
(* PREDICT against ServerCore, with and without a price, between feeds.    *)
(***************************************************************************)
\* A PREDICT request without a price, answered by ServerCore.
PredictNoPrice ==
    /\ server = "ServerCore"
    /\ Answer(Request("PREDICT", NoData, NoPrice), FALSE)
    /\ UNCHANGED <<connVars, predictVars, engineVars, threadVars, txnVars, lifeVars, artifact>>

NextAsk == PredictCore \/ PredictNoPrice \/ FeedTick \/ Respond

SpecAsk == InitPredict /\ [][NextAsk]_vars

PredictRequest ==
    /\ \E r \in PredictRequests : AnswerTrainSpec(r)
    /\ UNCHANGED <<connVars, predictVars, engineVars, threadVars, txnVars, lifeVars, artifact>>

NextFrame ==
    \/ FeedData
    \/ Predict
    \/ Train
    \/ Unknown
    \/ FeedOneTick
    \/ TrainRequest
    \/ PredictRequest
    \/ Respond

SpecFrame == InitTrain /\ [][NextFrame]_vars

\* C24: the model file is written only by a TRAIN request that is answered
\* {status: "ok"}; a TRAIN answered with an error, a FEED_DATA, a PREDICT
\* and an unknown request leave the file as it was.
C24_ArtifactWrittenOnlyByOkTrain ==
    [][ artifact' # artifact
        => /\ req'.type = "TRAIN"
           /\ resp'.status = "ok" ]_vars

\* A TRAIN request found enough ticks to train on, was answered with an
\* error, and the file has never been written.
C24_Witness ==
    /\ req.type = "TRAIN"
    /\ BagCardinality(store) >= TrainThreshold
    /\ resp.status = "error"
    /\ artifact = 0

\* C25: the tick store only grows: every step leaves each stored tick in
\* place, only a FEED_DATA request adds ticks, and PREDICT, TRAIN and
\* unknown requests, failed ones included, leave the store as it was.
C25_StoreAppendOnly ==
    [][ /\ store \sqsubseteq store'
        /\ store' # store => req'.type = "FEED_DATA" ]_vars

\* A batch of two ticks has been saved on top of a tick stored before.
C25_Witness ==
    /\ req.type = "FEED_DATA"
    /\ "count" \in DOMAIN resp
    /\ resp.count = 2
    /\ BagCardinality(store) = 3

(***************************************************************************)
(* DatabaseManager under concurrent connections.  Every call opens its own *)
(* sqlite connection (_get_conn); save_bulk_data runs BEGIN, executemany   *)
(* and COMMIT on it, and rolls back when any of them raises.  store is the *)
(* committed table, txn[c] the rows thread c has inserted and not yet      *)
(* committed, writer the connection that holds sqlite's write lock.  A     *)
(* thread is "recv" (between requests), "save" (inside the transaction of  *)
(* save_bulk_data), "reply" (save_bulk_data has returned, the response is  *)
(* not sent yet) or "read" (PREDICT or TRAIN has read the table).  The     *)
(* ticks of connection c carry the timestamp c.                            *)
(***************************************************************************)
TickOf(c) == Row(Num(c), Num(1))

\* One row of executemany("INSERT INTO ticks VALUES (?, ?)") inside the
\* open transaction.
execute_insert(pending, row) == Append(pending, row)

\* c.execute("COMMIT"): the rows of the transaction join the table.
commit(st, pending) == st (+) SeqToBag(pending)

\* (mutant) the rows inserted before the failure stay in the table.
rollback_keeps(st, pending) == st (+) SeqToBag(pending)

\* conn.rollback(): the table is the one before BEGIN.
rollback(st, pending) == st

RECURSIVE PendingUpTo(_, _)
PendingUpTo(pend, n) ==
    IF n = 0 THEN EmptyBag ELSE SeqToBag(pend[n]) (+) PendingUpTo(pend, n - 1)

\* (mutant) the SELECT also returns the rows other connections have
\* inserted and not committed.
table_read_dirty(st, pend) == st (+) PendingUpTo(pend, MaxConns)

\* The rows the SELECT of get_training_data runs over: it has a connection
\* of its own, which sees committed rows only.
table_read(st, pend) == st

InitTxn ==
    /\ recvd = <<>>
    /\ buffer = <<>>
    /\ sent = <<>>
    /\ dispatched = <<>>
    /\ pc = "recv"
    /\ closedBy = ""
    /\ store = EmptyBag
    /\ req = NoRequest
    /\ fault = FALSE
    /\ resp = NoResponse
    /\ server = "ServerCore"
    /\ tick_buffer = <<>>
    /\ predicts = <<>>
    /\ prices_list = <<>>
    /\ timestamps_list = <<>>
    /\ trained = NoResult
    /\ predicted = NoResult
    /\ features = <<>>
    /\ threads = [c \in Conns |-> "recv"]
    /\ backlog = 0
    /\ accept_loop = 0
    /\ lock = 0
    /\ txn = [c \in Conns |-> <<>>]
    /\ batch = [c \in Conns |-> <<>>]
    /\ writer = 0
    /\ reply = [c \in Conns |-> 0]
    /\ acked = [c \in Conns |-> 0]
    /\ seen = EmptyBag
    /\ boot_pc = "accept"
    /\ environment = [db_ok |-> TRUE, model_file |-> "absent", port_free |-> TRUE]
    /\ model_state = "fresh"
    /\ listener = "listening"
    /\ running = TRUE
    /\ ready = TRUE
    /\ clients = MaxConns
    /\ shutdowns = 0
    /\ artifact = 0

\* What no step of the concurrent feeds touches.
txnFrame == <<connVars, req, fault, resp, predictVars, engineVars,
              backlog, accept_loop, lock, lifeVars, artifact>>

\* A FEED_DATA request of BatchLen ticks reaches save_bulk_data on
\* connection c: cleaned_data is built and BEGIN TRANSACTION is executed,
\* which takes no lock yet.
BeginSave(c) ==
    /\ threads[c] = "recv"
    /\ CopiesIn(TickOf(c), store) < MaxFeeds * BatchLen
    /\ threads' = [threads EXCEPT ![c] = "save"]
    /\ batch' = [batch EXCEPT ![c] = [k \in 1..BatchLen |-> TickOf(c)]]
    /\ txn' = [txn EXCEPT ![c] = <<>>]
    /\ UNCHANGED <<store, writer, reply, acked, seen, txnFrame>>

\* executemany inserts the next row; the first insert takes the write lock,
\* which no other connection may hold.
InsertRow(c) ==
    /\ threads[c] = "save"
    /\ batch[c] # <<>>
    /\ writer \in {0, c}
    /\ writer' = c
    /\ txn' = [txn EXCEPT ![c] = execute_insert(txn[c], Head(batch[c]))]
    /\ batch' = [batch EXCEPT ![c] = Tail(batch[c])]
    /\ UNCHANGED <<store, threads, reply, acked, seen, txnFrame>>

\* COMMIT, then return len(cleaned_data).
Commit(c) ==
    /\ threads[c] = "save"
    /\ batch[c] = <<>>
    /\ writer = c
    /\ store' = commit(store, txn[c])
    /\ reply' = [reply EXCEPT ![c] = Len(txn[c])]
    /\ txn' = [txn EXCEPT ![c] = <<>>]
    /\ writer' = 0
    /\ threads' = [threads EXCEPT ![c] = "reply"]
    /\ UNCHANGED <<batch, acked, seen, txnFrame>>

\* executemany or COMMIT raises (the write lock is held by another
\* connection until the busy timeout, or the storage layer fails): the
\* except clause rolls back and returns 0.
Abort(c) ==
    /\ threads[c] = "save"
    /\ store' = rollback(store, txn[c])
    /\ reply' = [reply EXCEPT ![c] = 0]
    /\ txn' = [txn EXCEPT ![c] = <<>>]
    /\ batch' = [batch EXCEPT ![c] = <<>>]
    /\ writer' = IF writer = c THEN 0 ELSE writer
    /\ threads' = [threads EXCEPT ![c] = "reply"]
    /\ UNCHANGED <<acked, seen, txnFrame>>

\* The client of connection c receives {"status": "saved", "count": reply[c]}.
SendSaved(c) ==
    /\ threads[c] = "reply"
    /\ acked' = [acked EXCEPT ![c] = acked[c] + reply[c]]
    /\ reply' = [reply EXCEPT ![c] = 0]
    /\ threads' = [threads EXCEPT ![c] = "recv"]
    /\ UNCHANGED <<store, txn, batch, writer, seen, txnFrame>>

\* A PREDICT or TRAIN request on connection c runs get_training_data.
ReadTable(c) ==
    /\ threads[c] = "recv"
    /\ seen' = table_read(store, txn)
    /\ threads' = [threads EXCEPT ![c] = "read"]
    /\ UNCHANGED <<store, txn, batch, writer, reply, acked, txnFrame>>

\* The PREDICT or TRAIN request is answered.
ReadDone(c) ==
    /\ threads[c] = "read"
    /\ threads' = [threads EXCEPT ![c] = "recv"]
    /\ UNCHANGED <<store, txn, batch, writer, reply, acked, seen, txnFrame>>

NextTxn ==
    \E c \in Conns :
        \/ BeginSave(c)
        \/ InsertRow(c)
        \/ Commit(c)
        \/ Abort(c)
        \/ SendSaved(c)
        \/ ReadTable(c)
        \/ ReadDone(c)

SpecTxn == InitTxn /\ [][NextTxn]_vars

RECURSIVE SumUpTo(_, _)
SumUpTo(f, n) == IF n = 0 THEN 0 ELSE f[n] + SumUpTo(f, n - 1)

\* C22: the table a PREDICT or TRAIN request reads holds every tick whose
\* {saved, count} response any connection has already received, and of each
\* connection's batches it holds whole batches only: a batch not yet
\* confirmed is seen entirely or not at all, an uncommitted row never.
C22_ConfirmedTicksVisible ==
    [][ \A c \in Conns :
          (threads[c] = "recv" /\ threads'[c] = "read")
          => \A a \in Conns :
                /\ CopiesIn(TickOf(a), seen') >= acked[a]
                /\ CopiesIn(TickOf(a), seen') % BatchLen = 0 ]_vars

\* A request has just read the table: it saw the confirmed batch of one
\* connection, the committed but not yet confirmed batch of a second, and
\* nothing of the row a third has inserted and not committed.
C22_Witness ==
    \E c, a, b, d \in Conns :
        /\ threads[c] = "read"
        /\ acked[a] = BatchLen
        /\ CopiesIn(TickOf(a), seen) = BatchLen
        /\ threads[b] = "reply"
        /\ reply[b] = BatchLen
        /\ CopiesIn(TickOf(b), seen) = BatchLen
        /\ threads[d] = "save"
        /\ Len(txn[d]) = 1
        /\ CopiesIn(TickOf(d), seen) = 0

\* C23: whatever the overlap of the transactions, every connection's ticks
\* in the table are those of its batches that returned a count, each batch
\* returning its whole length or, rolled back, 0; so once the responses are
\* out the table holds exactly the sum of the counts.
C23_BatchesWholeOrAbsent ==
    /\ \A c \in Conns :
          /\ reply[c] \in {0, BatchLen}
          /\ CopiesIn(TickOf(c), store) =
                acked[c] + (IF threads[c] = "reply" THEN reply[c] ELSE 0)
    /\ (\A c \in Conns : threads[c] # "reply")
          => BagCardinality(store) = SumUpTo(acked, MaxConns)

\* Two connections' batches have returned their counts, the table holds
\* the sum of the two, and a third connection is inside its transaction
\* with one row inserted and one to go.
C23_Witness ==
    \E a, b, d \in Conns :
        /\ a # b
        /\ threads[a] = "reply"
        /\ reply[a] = BatchLen
        /\ threads[b] = "reply"
        /\ reply[b] = BatchLen
        /\ BagCardinality(store) = 2 * BatchLen
        /\ threads[d] = "save"
        /\ writer = d
        /\ Len(txn[d]) = 1
        /\ batch[d] # <<>>

(***************************************************************************)
(* The life of the server: main() of server_src (DatabaseManager, then     *)
(* ModelEngine, then ServerCore.start) and the start / stop / _shutdown of *)
(* SocketHandler, whose start() runs the same statements and whose stop()  *)
(* another thread may call.  boot_pc is "main", "db" (the database is      *)
(* open), "model" (the model is built), "socket" (start() has created the  *)
(* socket), "accept" (the accept loop), "finally" (the finally clause of   *)
(* start), "returned" (start() has returned) or "exit1" (sys.exit(1)).     *)
(***************************************************************************)
Environments ==
    [db_ok : BOOLEAN, model_file : {"absent", "present", "corrupt"}, port_free : BOOLEAN]

\* ModelEngine._load_or_create: load_model when MODEL_PATH exists, which
\* raises on a file that is no model; else a model built from config.
_load_or_create(file) ==
    CASE file = "absent" -> [raised |-> FALSE, model |-> "fresh"]
      [] file = "present" -> [raised |-> FALSE, model |-> "loaded"]
      [] file = "corrupt" -> [raised |-> TRUE, model |-> "none"]

\* (mutant) shutdown() alone: the socket is never closed.
_shutdown_keeps(sock) == sock

\* The socket after the shutdown step (SocketHandler._shutdown, and the
\* same statements in the finally clause of ServerCore.start): shutdown()
\* may raise on a socket that is not connected or already closed, which is
\* swallowed, and close() runs in any case; without a socket nothing runs.
_shutdown(sock) == IF sock = "none" THEN "none" ELSE "closed"

InitLife ==
    /\ recvd = <<>>
    /\ buffer = <<>>
    /\ sent = <<>>
    /\ dispatched = <<>>
    /\ pc = "recv"
    /\ closedBy = ""
    /\ store = EmptyBag
    /\ req = NoRequest
    /\ fault = FALSE
    /\ resp = NoResponse
    /\ server \in {"ServerCore", "SocketHandler"}
    /\ tick_buffer = <<>>
    /\ predicts = <<>>
    /\ prices_list = <<>>
    /\ timestamps_list = <<>>
    /\ trained = NoResult
    /\ predicted = NoResult
    /\ features = <<>>
    /\ threads = [c \in Conns |-> "none"]
    /\ backlog = 0
    /\ accept_loop = 0
    /\ lock = 0
    /\ txn = [c \in Conns |-> <<>>]
    /\ batch = [c \in Conns |-> <<>>]
    /\ writer = 0
    /\ reply = [c \in Conns |-> 0]
    /\ acked = [c \in Conns |-> 0]
    /\ seen = EmptyBag
    /\ boot_pc = IF server = "ServerCore" THEN "main" ELSE "model"
    /\ environment \in Environments
    /\ model_state = "none"
    /\ listener = "none"
    /\ running = FALSE
    /\ ready = FALSE
    /\ clients = 0
    /\ shutdowns = 0
    /\ artifact = 0

\* What no step of the server's life touches.
lifeFrame == <<connVars, storeVars, predictVars, engineVars, threadVars,
               txnVars, environment, artifact>>

\* db = DatabaseManager(): init_db opens the database file and creates the
\* table; a failure leaves main through its except clause, sys.exit(1).
NewDatabase ==
    /\ boot_pc = "main"
    /\ boot_pc' = IF environment.db_ok THEN "db" ELSE "exit1"
    /\ UNCHANGED <<model_state, listener, running, ready, clients, shutdowns, lifeFrame>>

\* model = ModelEngine(); an exception of load_model reaches the except
\* clause of main, sys.exit(1).
NewModel ==
    /\ boot_pc = "db"
    /\ LET m == _load_or_create(environment.model_file)
       IN  IF m.raised
           THEN /\ boot_pc' = "exit1"
                /\ UNCHANGED model_state
           ELSE /\ boot_pc' = "model"
                /\ model_state' = m.model
    /\ UNCHANGED <<listener, running, ready, clients, shutdowns, lifeFrame>>

\* start(): self.running = True and the socket is created.
StartEnter ==
    /\ boot_pc = "model"
    /\ running' = TRUE
    /\ listener' = "open"
    /\ boot_pc' = "socket"
    /\ UNCHANGED <<model_state, ready, clients, shutdowns, lifeFrame>>

\* bind and listen.  They raise when the port is taken, or when stop() has
\* closed the socket already; the except clause prints the error and the
\* finally clause follows.
BindListen ==
    /\ boot_pc = "socket"
    /\ IF environment.port_free /\ listener = "open"
       THEN /\ listener' = "listening"
            /\ ready' = TRUE
            /\ boot_pc' = "accept"
       ELSE /\ boot_pc' = "finally"
            /\ UNCHANGED <<listener, ready>>
    /\ UNCHANGED <<model_state, running, clients, shutdowns, lifeFrame>>

\* accept() returns a connection and its thread is started.
AcceptClient ==
    /\ boot_pc = "accept"
    /\ running
    /\ listener = "listening"
    /\ clients < MaxConns
    /\ clients' = clients + 1
    /\ UNCHANGED <<boot_pc, model_state, listener, running, ready, shutdowns, lifeFrame>>

\* accept() raises OSError: it is printed if the server runs, and the loop
\* tests self.running again.
AcceptOSError ==
    /\ boot_pc = "accept"
    /\ boot_pc' = IF running THEN "accept" ELSE "finally"
    /\ UNCHANGED <<model_state, listener, running, ready, clients, shutdowns, lifeFrame>>

\* Another exception in the loop (the thread cannot be started) reaches the
\* outer except clause.
AcceptRaises ==
    /\ boot_pc = "accept"
    /\ running
    /\ boot_pc' = "finally"
    /\ UNCHANGED <<model_state, listener, running, ready, clients, shutdowns, lifeFrame>>

\* except KeyboardInterrupt: break.
KeyboardInterrupt ==
    /\ boot_pc = "accept"
    /\ boot_pc' = "finally"
    /\ UNCHANGED <<model_state, listener, running, ready, clients, shutdowns, lifeFrame>>

\* SocketHandler.stop(), called from another thread at any time.
Stop ==
    /\ server = "SocketHandler"
    /\ boot_pc \in {"model", "socket", "accept", "finally", "returned"}
    /\ shutdowns < MaxStops
    /\ running' = FALSE
    /\ listener' = _shutdown(listener)
    /\ shutdowns' = shutdowns + 1
    /\ UNCHANGED <<boot_pc, model_state, ready, clients, lifeFrame>>

\* The finally clause of start(), after which start() returns.
Finally ==
    /\ boot_pc = "finally"
    /\ running' = FALSE
    /\ listener' = _shutdown(listener)
    /\ shutdowns' = shutdowns + 1
    /\ boot_pc' = "returned"
    /\ UNCHANGED <<model_state, ready, clients, lifeFrame>>

NextLife ==
    \/ NewDatabase
    \/ NewModel
    \/ StartEnter
    \/ BindListen
    \/ AcceptClient
    \/ AcceptOSError
    \/ AcceptRaises
    \/ KeyboardInterrupt
    \/ Stop
    \/ Finally

SpecLife == InitLife /\ [][NextLife]_vars

\* C26: whenever start() has returned (after a bind or listen failure, an
\* error in the accept loop, a keyboard interrupt or a stop() from another
\* thread), the listening socket is closed and running is False; and the
\* shutdown step, run once more, leaves the socket closed.
C26_ListenerReleased ==
    boot_pc = "returned"
    => /\ listener = "closed"
       /\ ~running
       /\ _shutdown(listener) = listener

\* start() has returned from a server that listened and accepted a client,
\* and the shutdown step has run twice: in stop() and in the finally clause.
C26_Witness ==
    /\ boot_pc = "returned"
    /\ ready
    /\ clients >= 1
    /\ shutdowns >= 2
    /\ listener = "closed"

\* The process ended before the server ever listened.
StartupFailed ==
    \/ boot_pc = "exit1"
    \/ boot_pc = "returned" /\ ~ready

\* C27: main's startup fails only when the listening socket cannot be
\* bound; a model file that is present is loaded, without one a fresh model
\* is built, and in both cases the server listens before a client is served.
C27_FatalOnlyWhenBindFails ==
    server = "ServerCore"
    => /\ StartupFailed => ~environment.port_free
       /\ boot_pc \in {"model", "socket", "accept", "finally", "returned"}
             => model_state = (IF environment.model_file = "absent" THEN "fresh" ELSE "loaded")
       /\ clients > 0 => ready

====
